---- MODULE Spec2Model ----
(***************************************************************************)
(* Model of py_lib/baselines.py: DumbPredictor and its three concrete      *)
(* classes DumbRegressor (mean), DumbOrdinalClassifier (median) and        *)
(* DumbNominalClassifier (mode).                                           *)
(*                                                                         *)
(* Library semantics the model follows:                                    *)
(*   np.mean(Series)  -> Series.mean(): sum / count, NaN when count = 0    *)
(*   np.median(a)     -> mean of the middle one/two elements of the        *)
(*                       sorted copy, NaN for an empty array               *)
(*   stats.mode(a)    -> array-returning form documented by the comment    *)
(*                       on line 76 (scipy < 1.11): scan of the sorted     *)
(*                       unique scores, strict '>' on the counts           *)
(*   np.full((n,), v) -> 1-d array of n copies of v                        *)
(* Numbers are exact rationals [num, den] in lowest terms; NaN is 0/0.     *)
(* Categorical values are integers, ordered as np.unique orders them.      *)
(***************************************************************************)
EXTENDS Integers, Sequences, FiniteSets, TLC

\* ---------------------------------------------------------------- bounds
NumVals == 2
MaxLen == 3
MaxN == 2
MaxCols == 2
NumFeatVals == 2

Values == 1..NumVals
FeatVals == 0..(NumFeatVals - 1)
Variants == {"DumbRegressor", "DumbOrdinalClassifier", "DumbNominalClassifier"}

\* every sequence a caller can pass as target_values
TargetSeqs == UNION {[1..k -> Values] : k \in 0..MaxLen}

\* ---------------------------------------------------------------- numbers
RECURSIVE GCD(_, _)
GCD(a, b) == IF b = 0 THEN a ELSE GCD(b, a % b)

Abs(x) == IF x < 0 THEN -x ELSE x

NaN == [num |-> 0, den |-> 0]

\* the float n / d (d > 0), kept as the rational in lowest terms
Rat(n, d) == LET g == GCD(Abs(n), d) IN [num |-> n \div g, den |-> d \div g]

\* an element of the data taken as it is
Num(v) == [num |-> v, den |-> 1]

RECURSIVE Sum(_)
Sum(s) == IF s = <<>> THEN 0 ELSE Head(s) + Sum(Tail(s))

\* ---------------------------------------------------------------- arrays
RECURSIVE insert(_, _)
insert(x, s) ==
    IF s = <<>> THEN <<x>>
    ELSE IF x <= Head(s) THEN <<x>> \o s
    ELSE <<Head(s)>> \o insert(x, Tail(s))

\* np.sort / np.partition at the middle indices: ascending copy
RECURSIVE sorted(_)
sorted(s) == IF s = <<>> THEN <<>> ELSE insert(Head(s), sorted(Tail(s)))

RECURSIVE dedup(_)
dedup(s) ==
    IF Len(s) <= 1 THEN s
    ELSE IF s[1] = s[2] THEN dedup(Tail(s))
    ELSE <<s[1]>> \o dedup(Tail(s))

\* np.unique(np.ravel(a)): the distinct scores in ascending order
unique(a) == dedup(sorted(a))

\* np.sum(a == score)
RECURSIVE count(_, _)
count(a, score) ==
    IF a = <<>> THEN 0
    ELSE (IF Head(a) = score THEN 1 ELSE 0) + count(Tail(a), score)

\* ---------------------------------------------------------------- statistics
\* a mean that divides with // instead of /
mean_floor_div(a) == IF Len(a) > 0 THEN [num |-> Sum(a) \div Len(a), den |-> 1] ELSE NaN

\* np.mean(self.targets): sum / count, NaN for no values
np_mean(a) == IF Len(a) > 0 THEN Rat(Sum(a), Len(a)) ELSE NaN

\* a median that skips the sort
median_unsorted(a) ==
    LET sz == Len(a)
        index == sz \div 2
    IN  IF sz = 0 THEN NaN
        ELSE IF sz % 2 = 1 THEN np_mean(<<a[index + 1]>>)
        ELSE np_mean(<<a[index], a[index + 1]>>)

\* a median that answers 0 for an empty array
median_zero_for_empty(a) ==
    LET sz == Len(a)
        part == sorted(a)
        index == sz \div 2
    IN  IF sz = 0 THEN [num |-> 0, den |-> 1]
        ELSE IF sz % 2 = 1 THEN np_mean(<<part[index + 1]>>)
        ELSE np_mean(<<part[index], part[index + 1]>>)

\* np.median(self.targets): middle element (odd size) or mean of the two
\* middle elements (even size) of the sorted copy
np_median(a) ==
    LET sz == Len(a)
        part == sorted(a)
        index == sz \div 2
    IN  IF sz = 0 THEN NaN
        ELSE IF sz % 2 = 1 THEN np_mean(<<part[index + 1]>>)
        ELSE np_mean(<<part[index], part[index + 1]>>)

\* a scan that keeps the first score whatever the counts
RECURSIVE scan_first_score(_, _, _, _)
scan_first_score(a, scores, oldmostfreq, oldcounts) ==
    IF scores = <<>> THEN oldmostfreq ELSE Head(scores)

\* a scan with the comparison of the counts turned round: no score ever
\* replaces the initial zero
RECURSIVE scan_inverted(_, _, _, _)
scan_inverted(a, scores, oldmostfreq, oldcounts) ==
    IF scores = <<>> THEN oldmostfreq
    ELSE LET score == Head(scores)
             counts == count(a, score)
         IN  IF counts < oldcounts
             THEN scan_inverted(a, Tail(scores), score, counts)
             ELSE scan_inverted(a, Tail(scores), oldmostfreq, oldcounts)

\* the loop of stats.mode over the sorted unique scores: a score replaces the
\* most frequent one only when its count is strictly greater
RECURSIVE mode_scan(_, _, _, _)
mode_scan(a, scores, oldmostfreq, oldcounts) ==
    IF scores = <<>> THEN oldmostfreq
    ELSE LET score == Head(scores)
             counts == count(a, score)
         IN  IF counts > oldcounts
             THEN mode_scan(a, Tail(scores), score, counts)
             ELSE mode_scan(a, Tail(scores), oldmostfreq, oldcounts)


\* stats.mode(self.targets)[0]: array holding the mode, empty for empty input
stats_mode(a) == IF a = <<>> THEN <<>> ELSE <<mode_scan(a, unique(a), 0, 0)>>

\* outcome of a call: the exception raised ("None" when it returns) and the
\* returned value
Return(v) == [exc |-> "None", value |-> v]
Raise(e) == [exc |-> e, value |-> <<>>]

\* _single_predict of the concrete class
single_predict(variant, targets) ==
    CASE variant = "DumbRegressor" -> Return(np_mean(targets))
      [] variant = "DumbOrdinalClassifier" -> Return(np_median(targets))
      [] variant = "DumbNominalClassifier" ->
            LET modes == stats_mode(targets)
            IN  IF Len(modes) = 0 THEN Raise("IndexError")
                ELSE Return(Num(modes[1]))

\* ---------------------------------------------------------------- features
Shapes == {<<>>} \cup {<<n>> : n \in 0..MaxN}
                 \cup {<<n, m>> : n \in 0..MaxN, m \in 1..MaxCols}

RECURSIVE Size(_)
Size(sh) == IF sh = <<>> THEN 1 ELSE Head(sh) * Size(Tail(sh))

\* the arrays passed to predict: 0-, 1- and 2-dimensional, every cell holding
\* the same value (np.full(shape, fill)); data is the flattened array
Features == {[shape |-> sh, data |-> [i \in 1..Size(sh) |-> fill]] :
                sh \in Shapes, fill \in FeatVals}

\* np.full((n,), fill)
np_full(n, fill) == [i \in 1..n |-> fill]

\* a predict that treats a 0-dimensional array as one record and a batch
\* without records as one record too
predict_at_least_one(variant, targets, features) ==
    LET n_features == IF features.shape = <<>> THEN 1
                      ELSE IF features.shape[1] = 0 THEN 1 ELSE features.shape[1]
        sp == single_predict(variant, targets)
    IN  IF sp.exc # "None" THEN sp ELSE Return(np_full(n_features, sp.value))

\* a predict that adds the first feature value to the statistic
predict_reads_features(variant, targets, features) ==
    IF features.shape = <<>> THEN Raise("IndexError")
    ELSE LET n_features == features.shape[1]
             sp == single_predict(variant, targets)
             off == IF Len(features.data) > 0 THEN features.data[1] ELSE 0
         IN  IF sp.exc # "None" THEN sp
             ELSE Return(np_full(n_features,
                     [num |-> sp.value.num + off * sp.value.den, den |-> sp.value.den]))

\* a predict that sizes its result by the last dimension
predict_last_dim(variant, targets, features) ==
    IF features.shape = <<>> THEN Raise("IndexError")
    ELSE LET n_features == features.shape[Len(features.shape)]
             sp == single_predict(variant, targets)
         IN  IF sp.exc # "None" THEN sp ELSE Return(np_full(n_features, sp.value))

\* DumbPredictor.predict
predict(variant, targets, features) ==
    IF features.shape = <<>> THEN Raise("IndexError")
    ELSE LET n_features == features.shape[1]
             sp == single_predict(variant, targets)
         IN  IF sp.exc # "None" THEN sp ELSE Return(np_full(n_features, sp.value))

\* ---------------------------------------------------------------- state
\* One instance is followed from its construction on; another instance is
\* another behaviour.
VARIABLES
    variant,   \* class of the instance, "none" before construction
    targets,   \* self.targets: the very object the caller passed in
    ctorT,     \* history: content of that object when __init__ ran
    mutated,   \* history: the caller changed the object after __init__
    last       \* history: most recent predict call on the instance

vars == <<variant, targets, ctorT, mutated, last>>

NoFeatures == [shape |-> <<>>, data |-> <<>>]
NoCall == [called |-> FALSE, features |-> NoFeatures, targets |-> <<>>, out |-> Raise("None")]

Init ==
    /\ variant = "none"
    /\ targets = <<>>
    /\ ctorT = <<>>
    /\ mutated = FALSE
    /\ last = NoCall

\* an __init__ that keeps only the distinct values
ConstructDistinct(v, target_values) ==
    /\ variant = "none"
    /\ variant' = v
    /\ targets' = unique(target_values)
    /\ ctorT' = target_values
    /\ UNCHANGED <<mutated, last>>

\* v(target_values): __init__ stores the reference, checks nothing
Construct(v, target_values) ==
    /\ variant = "none"
    /\ variant' = v
    /\ targets' = target_values
    /\ ctorT' = target_values
    /\ UNCHANGED <<mutated, last>>

\* a predict whose statistic sorts self.targets in place
PredictSortsInPlace(features) ==
    /\ variant # "none"
    /\ last' = [called |-> TRUE, features |-> features, targets |-> targets,
                out |-> predict(variant, targets, features)]
    /\ targets' = sorted(targets)
    /\ UNCHANGED <<variant, ctorT, mutated>>

\* instance.predict(features)
Predict(features) ==
    /\ variant # "none"
    /\ last' = [called |-> TRUE, features |-> features, targets |-> targets,
                out |-> predict(variant, targets, features)]
    /\ UNCHANGED <<variant, targets, ctorT, mutated>>

\* the caller's target_values[0] = v on the object it handed to __init__
SetFirst(v) ==
    /\ variant # "none"
    /\ Len(targets) > 0
    /\ targets[1] # v
    /\ targets' = [targets EXCEPT ![1] = v]
    /\ mutated' = TRUE
    /\ UNCHANGED <<variant, ctorT, last>>

Next ==
    \/ \E v \in Variants, t \in TargetSeqs : Construct(v, t)
    \/ \E f \in Features : Predict(f)
    \/ \E v \in Values : SetFirst(v)

Spec == Init /\ [][Next]_vars

TypeOK ==
    /\ variant \in Variants \cup {"none"}
    /\ targets \in TargetSeqs
    /\ ctorT \in TargetSeqs
    /\ mutated \in BOOLEAN
    /\ last.called \in BOOLEAN
    /\ last.called => last.features \in Features /\ last.targets \in TargetSeqs

\* ---------------------------------------------------------------- claims
\* shorthand for the recorded call
Called == last.called
RecordCount == last.features.shape[1]
HasCount == last.features.shape # <<>>
Returned == last.out.exc = "None"
Elements == {last.out.value[i] : i \in 1..Len(last.out.value)}
IsNumber(x) == DOMAIN x = {"num", "den"}

\* sum of T taken from the back, index by index
RECURSIVE TotalUpTo(_, _)
TotalUpTo(T, k) == IF k = 0 THEN 0 ELSE TotalUpTo(T, k - 1) + T[k]

Occurrences(T, x) == Cardinality({i \in 1..Len(T) : T[i] = x})
Below(T, x) == Cardinality({i \in 1..Len(T) : T[i] < x})
UpTo(T, x) == Cardinality({i \in 1..Len(T) : T[i] <= x})
Range(T) == {T[i] : i \in 1..Len(T)}

\* k-th smallest element of T (k in 1..Len(T)), defined by counting
OrderStat(T, k) == CHOOSE x \in Range(T) : Below(T, x) < k /\ k <= UpTo(T, x)

\* T with the elements at positions i and i + 1 exchanged; these exchanges
\* generate every reordering of T
Exchanged(T, i) == [T EXCEPT ![i] = T[i + 1], ![i + 1] = T[i]]

\* the most frequent values of T
TieSet(T) == {x \in Range(T) : \A y \in Range(T) : Occurrences(T, y) <= Occurrences(T, x)}

\* C1: for every variant, a non-empty stored target sequence and a batch with
\* record count n >= 0, predict returns a one-dimensional sequence of exactly
\* n elements; for n = 0 it returns the empty result and does not fail.
C1_LengthIsRecordCount ==
    (Called /\ last.targets # <<>> /\ HasCount) =>
        /\ Returned
        /\ Len(last.out.value) = RecordCount
        /\ \A e \in Elements : IsNumber(e)

C1_Witness ==
    /\ Called /\ last.targets # <<>>
    /\ last.features.shape = <<0, 1>>
    /\ Returned /\ last.out.value = <<>>

\* C2: the regressor's predict returns n elements, each the arithmetic mean
\* sum(T) / len(T) of the non-empty target sequence T.
C2_RegressorMean ==
    (Called /\ variant = "DumbRegressor" /\ last.targets # <<>> /\ HasCount) =>
        /\ Returned
        /\ Len(last.out.value) = RecordCount
        /\ \A e \in Elements :
              /\ e.den > 0
              /\ e.num * Len(last.targets) = TotalUpTo(last.targets, Len(last.targets)) * e.den

C2_Witness ==
    /\ Called /\ variant = "DumbRegressor"
    /\ last.targets = <<1, 2, 2>>
    /\ last.out.value = <<[num |-> 5, den |-> 3], [num |-> 5, den |-> 3]>>

\* C3: every element of the ordinal baseline's result is the conventional
\* median of the non-empty T: the middle element of sorted T for odd length,
\* the average of the two middle elements for even length, whatever the order
\* in which T's elements were supplied.
C3_OrdinalMedian ==
    (Called /\ variant = "DumbOrdinalClassifier" /\ last.targets # <<>> /\ HasCount) =>
        LET T == last.targets
            L == Len(T)
        IN  /\ Returned
            /\ \A e \in Elements :
                  /\ e.den > 0
                  /\ IF L % 2 = 1
                     THEN e.num = OrderStat(T, (L + 1) \div 2) * e.den
                     ELSE 2 * e.num = (OrderStat(T, L \div 2) + OrderStat(T, L \div 2 + 1)) * e.den
                  /\ \A i \in 1..(L - 1) : np_median(Exchanged(T, i)) = e

C3_Witness ==
    /\ Called /\ variant = "DumbOrdinalClassifier"
    /\ last.targets = <<1, 2, 1>>
    /\ last.out.value = <<[num |-> 1, den |-> 1]>>

\* C4: when the non-empty T has a unique mode m (strictly more frequent than
\* every other value), every element of the nominal baseline's result is m.
C4_NominalUniqueMode ==
    (Called /\ variant = "DumbNominalClassifier" /\ last.targets # <<>> /\ HasCount) =>
        \A m \in Range(last.targets) :
            (\A y \in Range(last.targets) \ {m} :
                 Occurrences(last.targets, y) < Occurrences(last.targets, m))
            => /\ Returned
               /\ Len(last.out.value) = RecordCount
               /\ \A e \in Elements : e = [num |-> m, den |-> 1]

C4_Witness ==
    /\ Called /\ variant = "DumbNominalClassifier"
    /\ last.targets = <<1, 2, 2>>
    /\ last.out.value = <<[num |-> 2, den |-> 1], [num |-> 2, den |-> 1]>>

\* C5: when several values of T are equally most frequent, the nominal
\* baseline's result holds one single value in every element, that value is a
\* member of the tie set, and repeated calls on the instance give that same
\* value.
C5_TieState ==
    (Called /\ variant = "DumbNominalClassifier" /\ HasCount
        /\ Cardinality(TieSet(last.targets)) >= 2) =>
        /\ Returned
        /\ Cardinality(Elements) <= 1
        /\ \A e \in Elements : e.den = 1 /\ e.num \in TieSet(last.targets)

C5_TieStep ==
    (/\ last.called /\ last'.called
     /\ variant' = "DumbNominalClassifier"
     /\ last'.targets = last.targets
     /\ Cardinality(TieSet(last.targets)) >= 2)
    => \A i \in 1..Len(last.out.value), j \in 1..Len(last'.out.value) :
           last'.out.value[j] = last.out.value[i]

C5_NominalTie == [](C5_TieState) /\ [][C5_TieStep]_vars

C5_Witness ==
    /\ Called /\ variant = "DumbNominalClassifier"
    /\ last.targets = <<2, 1>>
    /\ last.out.value = <<[num |-> 1, den |-> 1], [num |-> 1, den |-> 1]>>

\* C6 (as stated): constructing with an empty target sequence fails; no
\* instance holding an empty target sequence is ever created.
C6_NoEmptyInstance == variant # "none" => targets # <<>>

\* C6 (amended): construction with an empty target sequence succeeds and
\* stores it; the regressor and the ordinal baseline then predict n NaN, and
\* the nominal baseline's predict raises IndexError and returns nothing.
C6_EmptyDeferred ==
    /\ ~mutated => targets = ctorT
    /\ (Called /\ last.targets = <<>> /\ HasCount) =>
          IF variant = "DumbNominalClassifier"
          THEN last.out = [exc |-> "IndexError", value |-> <<>>]
          ELSE /\ Returned
               /\ Len(last.out.value) = RecordCount
               /\ \A e \in Elements : e = [num |-> 0, den |-> 0]

C6_Witness ==
    /\ variant = "DumbOrdinalClassifier"
    /\ ctorT = <<>> /\ targets = <<>>
    /\ Called /\ last.targets = <<>>
    /\ last.out.value = <<[num |-> 0, den |-> 0], [num |-> 0, den |-> 0]>>

\* C7 (as stated): predict fails with InvalidInputError whenever the batch has
\* a zero leading dimension or cannot report a record count.
C7_InvalidInputError ==
    (Called /\ (~HasCount \/ RecordCount = 0)) =>
        last.out = [exc |-> "InvalidInputError", value |-> <<>>]

\* C7 (amended): predict on a batch that cannot report a record count (a
\* 0-dimensional array) raises IndexError and returns nothing; on a batch
\* with a zero leading dimension it returns the empty result, no error,
\* whenever the statistic itself can be computed.
C7_NoCountOrZero ==
    /\ (Called /\ ~HasCount) => last.out = [exc |-> "IndexError", value |-> <<>>]
    /\ (Called /\ HasCount /\ RecordCount = 0
           /\ ~(variant = "DumbNominalClassifier" /\ last.targets = <<>>))
          => last.out = [exc |-> "None", value |-> <<>>]

C7_Witness ==
    /\ Called /\ ~HasCount
    /\ last.targets # <<>>
    /\ last.out.exc = "IndexError"

\* C8: on one instance, two batches with the same record count get identical
\* results, whatever their element values and number of dimensions.
C8_SameCountStep ==
    (/\ last.called /\ last'.called
     /\ last.features.shape # <<>> /\ last'.features.shape # <<>>
     /\ last'.features.shape[1] = last.features.shape[1]
     /\ last'.targets = last.targets)
    => last'.out = last.out

C8_FeatureIndependence == [][C8_SameCountStep]_vars

C8_Witness ==
    /\ Called /\ last.targets # <<>>
    /\ last.features = [shape |-> <<2, 2>>, data |-> <<1, 1, 1, 1>>]
    /\ Returned /\ Len(last.out.value) = 2

\* C9 (as stated): every predict call returns the statistic of the target
\* sequence as it was at construction, whatever was done since to the
\* instance or to the sequence object passed to the constructor.
C9_StatisticOfCtorTargets ==
    Called => last.out = predict(variant, ctorT, last.features)

\* C9 (amended): while the sequence object passed to the constructor has not
\* been changed since construction, every predict call returns the statistic
\* of the sequence as it was at construction; the instance holds that very
\* object, so a predict call made after the caller changed it returns the
\* statistic of the changed content.
C9_StatisticOfSharedTargets ==
    /\ (Called /\ ~mutated) =>
          /\ last.targets = ctorT
          /\ last.out = predict(variant, ctorT, last.features)
    /\ Called => last.out = predict(variant, last.targets, last.features)

C9_Witness ==
    /\ variant = "DumbRegressor"
    /\ ctorT = <<1, 1>> /\ targets = <<2, 1>> /\ mutated
    /\ Called /\ last.targets = <<2, 1>>
    /\ last.out.value = <<[num |-> 3, den |-> 2]>>

\* C10: a predict call changes nothing: the instance's class and its stored
\* target sequence (values and order) are the same after the call, and the
\* call returns what any other call with that record count returns.
C10_PredictStep ==
    (variant # "none" /\ last' # last) =>
        /\ targets' = targets
        /\ variant' = variant
        /\ last'.called /\ last'.targets = targets
        /\ (last.called /\ last.targets = targets
              /\ last.features.shape # <<>> /\ last'.features.shape # <<>>
              /\ last.features.shape[1] = last'.features.shape[1])
           => last'.out = last.out

C10_PredictFrame == [][C10_PredictStep]_vars

C10_Witness ==
    /\ Called /\ ~mutated
    /\ variant = "DumbOrdinalClassifier"
    /\ targets = <<2, 1, 2>> /\ ctorT = <<2, 1, 2>>
    /\ last.out.value = <<[num |-> 2, den |-> 1], [num |-> 2, den |-> 1]>>
====
